---------------------------- MODULE Spec2Model ----------------------------
(***************************************************************************)
(* hdf5-iotest: the driver (main) of the parallel I/O tester and           *)
(* set_libver_bounds, from src/src/hdf5_iotest.c.                          *)
(*                                                                         *)
(* The program is SPMD: `size' MPI processes run main().  Each process is  *)
(* a sequential program; pc[p] is the statement process p is about to      *)
(* execute.  Processes meet only in the collectives (MPI_Bcast, three      *)
(* MPI_Barrier, ten MPI_Reduce).                                           *)
(*                                                                         *)
(* assert() is taken as compiled in (no NDEBUG): a failed assertion calls  *)
(* abort() in the process that evaluates it.  The program installs no MPI  *)
(* error handler.  Under the default, MPI_ERRORS_ARE_FATAL, an error       *)
(* inside an MPI call aborts every process of the job (MPIFail, Spec).     *)
(* When the job is started with MPI_ERRORS_RETURN as initial handler the   *)
(* call returns the error to main, which does not look at it               *)
(* (MPIErrorIgnored, SpecErrorsReturn).                                    *)
(***************************************************************************)
EXTENDS Integers, Sequences, FiniteSets, TLC

VARIABLES
  size,         \* MPI_Comm_size (line 50)
  ini_ok,       \* whether ini_parse can load the file (line 59)
  ini,          \* the configuration the ini file holds
  minnum,       \* HDF5 library minor version, H5get_libversion (line 232)
  clock,        \* elapsed seconds the MPI_Wtime pairs measure, per process
  pc,           \* per process: the statement about to be executed
  config,       \* per process: `configuration config' (line 33)
  my_proc_row,  \* line 72
  my_proc_col,  \* line 73
  my_rows,      \* line 76
  my_cols,      \* line 77
  tm,           \* per process: write_phase, create_time, write_time, read_phase, read_time
  agg,          \* per process: the ten min_*/max_* variables (lines 43-47)
  nred,         \* per process: number of MPI_Reduce calls completed
  bcast_sent,   \* the root has entered MPI_Bcast and its buffer is on the way
  arrived,      \* per barrier (1..3): the processes that have entered it
  fapl,         \* per process: the libver bounds set on the file-access list
  console,      \* number of console reports printed (lines 173-192)
  csv,          \* number of CSV files written (lines 195-219)
  rates,        \* the four rates computed at lines 169-172
  failed,       \* <<process, operation>> pairs: collaborator calls that failed
  trace         \* per process: the calls issued so far, in order

vars == <<size, ini_ok, ini, minnum, clock, pc, config, my_proc_row,
          my_proc_col, my_rows, my_cols, tm, agg, nred, bcast_sent,
          arrived, fapl, console, csv, rates, failed, trace>>

---------------------------------------------------------------------------
\* Bounds of the model.
MaxProcs == 3       \* processes in the protocol specifications
MaxStatProcs == 2   \* processes in the statistics specification
MaxTime == 2        \* measured times range over 0..MaxTime
MaxGrid == 2        \* proc_rows, proc_cols range over 1..MaxGrid
MaxExtent == 4      \* rows, cols range over 1..MaxExtent (and 20)

Procs == 0 .. (size - 1)
Times == 0 .. MaxTime

Min(S) == CHOOSE x \in S : \A y \in S : x <= y
Max(S) == CHOOSE x \in S : \A y \in S : y <= x

---------------------------------------------------------------------------
\* Process Grid Mapper and Partition Planner (lines 72-77).

\* strncmp(config.scaling, "strong", 16) == 0
strong_scaling_flg(c) == c.scaling = "strong"

\* Mutant: the row is taken from the number of grid rows.
GridRowByRows(rank, c) == rank \div c.proc_rows
GridRow(rank, c) == rank \div c.proc_cols
GridCol(rank, c) == rank % c.proc_cols

\* Mutant: the rows are divided by the number of grid columns.
LocalRowsByCols(c) ==
  IF strong_scaling_flg(c) THEN c.rows \div c.proc_cols ELSE c.rows
LocalRows(c) == IF strong_scaling_flg(c) THEN c.rows \div c.proc_rows ELSE c.rows
\* Mutant: the columns are divided whatever the scaling mode.
LocalColsAlways(c) == c.cols \div c.proc_cols
LocalCols(c) == IF strong_scaling_flg(c) THEN c.cols \div c.proc_cols ELSE c.cols

\* The subregion a process hands to write_test/read_test: offset and count.
SubOffset(p) == <<my_proc_row[p] * my_rows[p], my_proc_col[p] * my_cols[p]>>
SubCount(p) == <<my_rows[p], my_cols[p]>>

\* The extent of the on-disk dataset write_test declares.
DiskExtent(c) ==
  IF strong_scaling_flg(c) THEN <<c.rows, c.cols>>
  ELSE <<c.rows * c.proc_rows, c.cols * c.proc_cols>>

\* validate(&config, size): the grid must match the process count.
validate(c, sz) == c.proc_rows * c.proc_cols = sz

---------------------------------------------------------------------------
\* set_libver_bounds (lines 227-289).  H5F_libver_t of the HDF5 headers.
H5F_LIBVER_EARLIEST == 0
H5F_LIBVER_V18 == 1
H5F_LIBVER_V110 == 2
H5F_LIBVER_V112 == 3

\* H5_VERSION_GE(1, m, 0) for a library 1.v.x
H5_VERSION_GE(v, m) == v >= m

\* H5F_LIBVER_LATEST is the newest format the library knows.
H5F_LIBVER_LATEST(v) ==
  IF H5_VERSION_GE(v, 13) THEN 4
  ELSE IF H5_VERSION_GE(v, 12) THEN H5F_LIBVER_V112
  ELSE IF H5_VERSION_GE(v, 10) THEN H5F_LIBVER_V110
  ELSE 1

\* lines 230, 235-257
LowBound(s, v) ==
  IF s = "earliest" THEN H5F_LIBVER_EARLIEST
  ELSE IF s = "v18"
    THEN (IF H5_VERSION_GE(v, 10) THEN H5F_LIBVER_V18 ELSE H5F_LIBVER_LATEST(v))
  ELSE IF s = "v110"
    THEN (IF H5_VERSION_GE(v, 12) THEN H5F_LIBVER_V110 ELSE H5F_LIBVER_LATEST(v))
  ELSE IF s = "v112"
    THEN (IF H5_VERSION_GE(v, 13) THEN H5F_LIBVER_V112 ELSE H5F_LIBVER_LATEST(v))
  ELSE H5F_LIBVER_LATEST(v)

\* lines 230, 259-279
HighBound(s, v) ==
  IF s = "latest" THEN H5F_LIBVER_LATEST(v)
  ELSE IF s = "v18"
    THEN (IF H5_VERSION_GE(v, 10) THEN H5F_LIBVER_V18 ELSE H5F_LIBVER_LATEST(v))
  ELSE IF s = "v110"
    THEN (IF H5_VERSION_GE(v, 12) THEN H5F_LIBVER_V110 ELSE H5F_LIBVER_LATEST(v))
  ELSE IF s = "v112"
    THEN (IF H5_VERSION_GE(v, 13) THEN H5F_LIBVER_V112 ELSE H5F_LIBVER_LATEST(v))
  ELSE H5F_LIBVER_LATEST(v)

\* assert (majnum == 1 && minnum >= 8 && minnum <= 13), line 233
VersionSupported(v) == v >= 8 /\ v <= 13

\* Mutant: the order of the bounds is not checked.
BoundsUnchecked(low, high) == TRUE

\* assert(low <= high), line 281
BoundsOrdered(low, high) == low <= high

NoBounds == [set |-> FALSE, low |-> 0, high |-> 0]

---------------------------------------------------------------------------
\* Values a variable holds before the program has assigned it.
Unset == 0 - 1
NoConfig ==
  [steps |-> 0, arrays |-> 0, rows |-> 0, cols |-> 0, scaling |-> "",
   proc_rows |-> 0, proc_cols |-> 0, alignment_increment |-> 0,
   libver_bound_low |-> "", libver_bound_high |-> ""]
\* line 55 zeroes create_time, write_time and read_time
NoTimes ==
  [write_phase |-> Unset, create_time |-> 0, write_time |-> 0,
   read_phase |-> Unset, read_time |-> 0]
Fields == {"write_phase", "create_time", "write_time", "read_phase", "read_time"}
NoAgg == [k \in {"min", "max"} |-> [f \in Fields |-> Unset]]
\* lines 138-142
ZeroAgg == [k \in {"min", "max"} |-> [f \in Fields |-> 0]]
NoRates ==
  [min_write_rate |-> <<0, 1>>, max_write_rate |-> <<0, 1>>,
   min_read_rate |-> <<0, 1>>, max_read_rate |-> <<0, 1>>]

\* The order of the MPI_Reduce calls, lines 144-163.
ReduceOrder ==
  << <<"write_phase", "min">>, <<"write_phase", "max">>,
     <<"create_time", "min">>, <<"create_time", "max">>,
     <<"write_time", "min">>, <<"write_time", "max">>,
     <<"read_phase", "min">>, <<"read_phase", "max">>,
     <<"read_time", "min">>, <<"read_time", "max">> >>
NumReduces == Len(ReduceOrder)

Log(p, e) == trace' = [trace EXCEPT ![p] = Append(@, e)]

\* A failed assert(): abort() ends the process.
Abort(p) == pc' = [pc EXCEPT ![p] = "aborted"]

---------------------------------------------------------------------------
\* main, lines 57-67, rank 0 only.

\* ini_parse(ini, handler, &config) < 0: printf and return 1 (lines 59-63)
LoadConfig ==
  /\ pc[0] = "load"
  /\ IF ini_ok
       THEN /\ pc' = [pc EXCEPT ![0] = "check"]
            /\ config' = [config EXCEPT ![0] = ini]
       ELSE /\ pc' = [pc EXCEPT ![0] = "exit1"]
            /\ UNCHANGED config
  /\ UNCHANGED <<size, ini_ok, ini, minnum, clock, my_proc_row, my_proc_col,
                 my_rows, my_cols, tm, agg, nred, bcast_sent, arrived, fapl,
                 console, csv, rates, failed, trace>>

\* sanity_check(&config); validate(&config, size); (lines 65-66)
CheckConfig ==
  /\ pc[0] = "check"
  /\ IF validate(config[0], size)
       THEN pc' = [pc EXCEPT ![0] = "bcast"]
       ELSE Abort(0)
  /\ UNCHANGED <<size, ini_ok, ini, minnum, clock, config, my_proc_row,
                 my_proc_col, my_rows, my_cols, tm, agg, nred, bcast_sent,
                 arrived, fapl, console, csv, rates, failed, trace>>

\* MPI_Bcast(&config, ..., 0, MPI_COMM_WORLD), line 70: the call is entered.
BcastEnter(p) ==
  /\ pc[p] = "bcast"
  /\ pc' = [pc EXCEPT ![p] = "bcast_wait"]
  /\ bcast_sent' = (bcast_sent \/ p = 0)
  /\ Log(p, "bcast")
  /\ UNCHANGED <<size, ini_ok, ini, minnum, clock, config, my_proc_row,
                 my_proc_col, my_rows, my_cols, tm, agg, nred, arrived, fapl,
                 console, csv, rates, failed>>

\* MPI_Bcast returns: every process holds the root's bytes.
BcastLeave(p) ==
  /\ pc[p] = "bcast_wait"
  /\ bcast_sent
  /\ config' = [config EXCEPT ![p] = config[0]]
  /\ pc' = [pc EXCEPT ![p] = "grid"]
  /\ Log(p, "bcast_done")
  /\ UNCHANGED <<size, ini_ok, ini, minnum, clock, my_proc_row, my_proc_col,
                 my_rows, my_cols, tm, agg, nred, bcast_sent, arrived, fapl,
                 console, csv, rates, failed>>

\* lines 72-77
ComputeGrid(p) ==
  /\ pc[p] = "grid"
  /\ my_proc_row' = [my_proc_row EXCEPT ![p] = GridRow(p, config[p])]
  /\ my_proc_col' = [my_proc_col EXCEPT ![p] = GridCol(p, config[p])]
  /\ my_rows' = [my_rows EXCEPT ![p] = LocalRows(config[p])]
  /\ my_cols' = [my_cols EXCEPT ![p] = LocalCols(config[p])]
  /\ pc' = [pc EXCEPT ![p] = "dxpl_create"]
  /\ UNCHANGED <<size, ini_ok, ini, minnum, clock, config, tm, agg, nred,
                 bcast_sent, arrived, fapl, console, csv, rates, failed, trace>>

---------------------------------------------------------------------------
\* The asserted HDF5 calls of main: property lists (lines 79-90), their
\* release (124-125) and rank 0's file-size query (132-135).
H5Ops == {"dxpl_create", "dxpl_mpio", "fapl_create", "fapl_mpio", "alignment",
          "close_fapl", "close_dxpl", "fopen", "fsize", "fclose"}

\* The statement that follows a successful call.
After(p, l) ==
  CASE l = "dxpl_create" -> "dxpl_mpio"
    [] l = "dxpl_mpio" -> "fapl_create"
    [] l = "fapl_create" -> "fapl_mpio"
    [] l = "fapl_mpio" ->
         (IF config[p].alignment_increment > 1 THEN "alignment" ELSE "libver")
    [] l = "alignment" -> "libver"
    [] l = "close_fapl" -> "close_dxpl"
    [] l = "close_dxpl" -> (IF p = 0 THEN "fopen" ELSE "reduce")
    [] l = "fopen" -> "fsize"
    [] l = "fsize" -> "fclose"
    [] l = "fclose" -> "reduce"

\* assert(H5...(...) >= 0) with a call that succeeds.
H5Call(p) ==
  /\ pc[p] \in H5Ops
  /\ pc' = [pc EXCEPT ![p] = After(p, pc[p])]
  /\ agg' = IF After(p, pc[p]) = "reduce"
              THEN [agg EXCEPT ![p] = ZeroAgg]      \* lines 138-142
              ELSE agg
  /\ Log(p, pc[p])
  /\ UNCHANGED <<size, ini_ok, ini, minnum, clock, config, my_proc_row,
                 my_proc_col, my_rows, my_cols, tm, nred, bcast_sent, arrived,
                 fapl, console, csv, rates, failed>>

\* assert(H5...(...) >= 0) with a call that fails, in main or in
\* set_libver_bounds (lines 232, 282): the process aborts.
H5Fail(p) ==
  /\ pc[p] \in H5Ops \cup {"libver"}
  /\ Abort(p)
  /\ failed' = failed \cup {<<p, pc[p]>>}
  /\ Log(p, pc[p])
  /\ UNCHANGED <<size, ini_ok, ini, minnum, clock, config, my_proc_row,
                 my_proc_col, my_rows, my_cols, tm, agg, nred, bcast_sent,
                 arrived, fapl, console, csv, rates>>

\* assert(set_libver_bounds(&config, rank, fapl) >= 0), line 91, with the
\* library calls succeeding; then rank 0 echoes the configuration (93-106).
set_libver_bounds(p) ==
  /\ pc[p] = "libver"
  /\ LET low == LowBound(config[p].libver_bound_low, minnum)
         high == HighBound(config[p].libver_bound_high, minnum)
     IN IF VersionSupported(minnum) /\ BoundsOrdered(low, high)
          THEN /\ fapl' = [fapl EXCEPT ![p] =
                             [set |-> TRUE, low |-> low, high |-> high]]
               /\ pc' = [pc EXCEPT ![p] = "barrier1"]
          ELSE /\ Abort(p)
               /\ UNCHANGED fapl
  /\ Log(p, "libver")
  /\ UNCHANGED <<size, ini_ok, ini, minnum, clock, config, my_proc_row,
                 my_proc_col, my_rows, my_cols, tm, agg, nred, bcast_sent,
                 arrived, console, csv, rates, failed>>

---------------------------------------------------------------------------
\* MPI_Barrier(MPI_COMM_WORLD), lines 108, 115, 122.
BarrierPc(k) == <<"barrier1", "barrier2", "barrier3">>[k]
BarrierWaitPc(k) == <<"barrier1_wait", "barrier2_wait", "barrier3_wait">>[k]
AfterBarrier(k) == <<"write", "read", "close_fapl">>[k]

BarrierEnter(p, k) ==
  /\ pc[p] = BarrierPc(k)
  /\ pc' = [pc EXCEPT ![p] = BarrierWaitPc(k)]
  /\ arrived' = [arrived EXCEPT ![k] = @ \cup {p}]
  /\ Log(p, "barrier")
  /\ UNCHANGED <<size, ini_ok, ini, minnum, clock, config, my_proc_row,
                 my_proc_col, my_rows, my_cols, tm, agg, nred, bcast_sent,
                 fapl, console, csv, rates, failed>>

\* Mutant: the barrier releases a process once any process has entered it.
BarrierOpenAny(k) == arrived[k] # {}

\* The barrier releases a process once every process has entered it.
BarrierOpen(k) == arrived[k] = Procs

BarrierLeave(p, k) ==
  /\ pc[p] = BarrierWaitPc(k)
  /\ BarrierOpen(k)
  /\ pc' = [pc EXCEPT ![p] = AfterBarrier(k)]
  /\ UNCHANGED <<size, ini_ok, ini, minnum, clock, config, my_proc_row,
                 my_proc_col, my_rows, my_cols, tm, agg, nred, bcast_sent,
                 arrived, fapl, console, csv, rates, failed, trace>>

---------------------------------------------------------------------------
\* The timed phases, lines 110-113 and 117-120.
WriteBegin(p) ==
  /\ pc[p] = "write"
  /\ pc' = [pc EXCEPT ![p] = "writing"]
  /\ Log(p, "write_test")
  /\ UNCHANGED <<size, ini_ok, ini, minnum, clock, config, my_proc_row,
                 my_proc_col, my_rows, my_cols, tm, agg, nred, bcast_sent,
                 arrived, fapl, console, csv, rates, failed>>

WriteEnd(p) ==
  /\ pc[p] = "writing"
  /\ tm' = [tm EXCEPT ![p].create_time = clock[p].create_time,
                      ![p].write_time = clock[p].write_time,
                      ![p].write_phase = clock[p].write_phase]
  /\ pc' = [pc EXCEPT ![p] = "barrier2"]
  /\ Log(p, "write_done")
  /\ UNCHANGED <<size, ini_ok, ini, minnum, clock, config, my_proc_row,
                 my_proc_col, my_rows, my_cols, agg, nred, bcast_sent,
                 arrived, fapl, console, csv, rates, failed>>

ReadBegin(p) ==
  /\ pc[p] = "read"
  /\ pc' = [pc EXCEPT ![p] = "reading"]
  /\ Log(p, "read_test")
  /\ UNCHANGED <<size, ini_ok, ini, minnum, clock, config, my_proc_row,
                 my_proc_col, my_rows, my_cols, tm, agg, nred, bcast_sent,
                 arrived, fapl, console, csv, rates, failed>>

ReadEnd(p) ==
  /\ pc[p] = "reading"
  /\ tm' = [tm EXCEPT ![p].read_time = clock[p].read_time,
                      ![p].read_phase = clock[p].read_phase]
  /\ pc' = [pc EXCEPT ![p] = "barrier3"]
  /\ Log(p, "read_done")
  /\ UNCHANGED <<size, ini_ok, ini, minnum, clock, config, my_proc_row,
                 my_proc_col, my_rows, my_cols, agg, nred, bcast_sent,
                 arrived, fapl, console, csv, rates, failed>>

\* write_test or read_test meets a failing storage call: fatal.
IoTestFail(p) ==
  /\ pc[p] \in {"writing", "reading"}
  /\ Abort(p)
  /\ failed' = failed \cup {<<p, pc[p]>>}
  /\ UNCHANGED <<size, ini_ok, ini, minnum, clock, config, my_proc_row,
                 my_proc_col, my_rows, my_cols, tm, agg, nred, bcast_sent,
                 arrived, fapl, console, csv, rates, trace>>

---------------------------------------------------------------------------
\* The reductions, lines 144-163.

\* Mutant: every reduction is called with MPI_MIN.
ReduceOpMin(kind, S) == Min(S)

\* What MPI_Reduce with MPI_MIN / MPI_MAX leaves in the root's receive buffer.
ReduceOp(kind, S) == IF kind = "min" THEN Min(S) ELSE Max(S)

\* Mutant: the reductions are called by rank 0 alone.
ReduceReadyRootOnly(p, k) == p = 0 /\ \A q \in Procs : q # 0 => nred[q] >= k

\* When the k-th MPI_Reduce of process p can return: a process other than
\* the root hands over its value and returns; the root returns once it has
\* every value.
ReduceReady(p, k) == p = 0 => \A q \in Procs : q # 0 => nred[q] >= k

\* The k-th MPI_Reduce of process p.
Reduce(p) ==
  /\ pc[p] = "reduce"
  /\ nred[p] < NumReduces
  /\ LET k == nred[p] + 1
         f == ReduceOrder[k][1]
         kind == ReduceOrder[k][2]
     IN /\ ReduceReady(p, k)
        /\ agg' = IF p = 0
                    THEN [agg EXCEPT ![0][kind][f] =
                            ReduceOp(kind, {tm[q][f] : q \in Procs})]
                    ELSE agg
        /\ nred' = [nred EXCEPT ![p] = k]
        /\ pc' = IF k = NumReduces
                   THEN [pc EXCEPT ![p] = IF p = 0 THEN "report" ELSE "finalize"]
                   ELSE pc
  /\ Log(p, "reduce")
  /\ UNCHANGED <<size, ini_ok, ini, minnum, clock, config, my_proc_row,
                 my_proc_col, my_rows, my_cols, tm, bcast_sent, arrived, fapl,
                 console, csv, rates, failed>>

\* An error inside MPI_Bcast, MPI_Barrier or MPI_Reduce: the return value is
\* not looked at (lines 70, 108, 115, 122, 144-163) and no error handler is
\* installed, so MPI_ERRORS_ARE_FATAL aborts every process still running.
MPIOps == {"bcast", "barrier1", "barrier2", "barrier3", "reduce"}
Ended == {"done", "exit1", "aborted"}

MPIFail(p) ==
  /\ pc[p] \in MPIOps
  /\ pc' = [q \in Procs |-> IF pc[q] \in Ended THEN pc[q] ELSE "aborted"]
  /\ failed' = failed \cup {<<p, pc[p]>>}
  /\ Log(p, IF pc[p] = "bcast" THEN "bcast"
            ELSE IF pc[p] = "reduce" THEN "reduce" ELSE "barrier")
  /\ UNCHANGED <<size, ini_ok, ini, minnum, clock, config, my_proc_row,
                 my_proc_col, my_rows, my_cols, tm, agg, nred, bcast_sent,
                 arrived, fapl, console, csv, rates>>

\* MPI_Barrier or MPI_Reduce returns an error code to main: the value is
\* discarded (lines 108, 115, 122, 144-163) and the process goes on with
\* the next statement.  The failed barrier has not waited for anyone; the
\* failed reduction leaves the receive buffer as it was.  (An error returned
\* by MPI_Bcast leaves the configuration undefined and is not followed.)
MPIErrorIgnored(p) ==
  /\ pc[p] \in {"barrier1", "barrier2", "barrier3", "reduce"}
  /\ failed' = failed \cup {<<p, pc[p]>>}
  /\ IF pc[p] = "reduce"
       THEN /\ nred' = [nred EXCEPT ![p] = @ + 1]
            /\ pc' = IF nred[p] + 1 = NumReduces
                       THEN [pc EXCEPT ![p] = IF p = 0 THEN "report" ELSE "finalize"]
                       ELSE pc
            /\ Log(p, "reduce")
       ELSE /\ pc' = [pc EXCEPT ![p] =
                        AfterBarrier(CHOOSE k \in 1 .. 3 : BarrierPc(k) = pc[p])]
            /\ Log(p, "barrier")
            /\ UNCHANGED nred
  /\ UNCHANGED <<size, ini_ok, ini, minnum, clock, config, my_proc_row,
                 my_proc_col, my_rows, my_cols, tm, agg, bcast_sent, arrived,
                 fapl, console, csv, rates>>

---------------------------------------------------------------------------
\* The report, rank 0 only (lines 165-220).
MiB == 1024 * 1024
SizeofDouble == 8

\* line 167-168
byte_count(p) ==
  config[p].steps * config[p].arrays * my_rows[p] * my_cols[p] * SizeofDouble

\* Mutant: the minimum rate is paired with the minimum time.
min_write_rate_by_min == <<byte_count(0), MiB * agg[0]["min"]["write_time"]>>

\* A rate is the quotient <<numerator, denominator>>, lines 169-172.
min_write_rate == <<byte_count(0), MiB * agg[0]["max"]["write_time"]>>
max_write_rate == <<byte_count(0), MiB * agg[0]["min"]["write_time"]>>
min_read_rate == <<byte_count(0), MiB * agg[0]["max"]["read_time"]>>
max_read_rate == <<byte_count(0), MiB * agg[0]["min"]["read_time"]>>

\* lines 167-192
Report ==
  /\ pc[0] = "report"
  /\ rates' = [min_write_rate |-> min_write_rate,
               max_write_rate |-> max_write_rate,
               min_read_rate |-> min_read_rate,
               max_read_rate |-> max_read_rate]
  /\ console' = console + 1
  /\ pc' = [pc EXCEPT ![0] = "csv"]
  /\ UNCHANGED <<size, ini_ok, ini, minnum, clock, config, my_proc_row,
                 my_proc_col, my_rows, my_cols, tm, agg, nred, bcast_sent,
                 arrived, fapl, csv, failed, trace>>

\* lines 195-219
WriteCsv ==
  /\ pc[0] = "csv"
  /\ csv' = csv + 1
  /\ pc' = [pc EXCEPT ![0] = "finalize"]
  /\ UNCHANGED <<size, ini_ok, ini, minnum, clock, config, my_proc_row,
                 my_proc_col, my_rows, my_cols, tm, agg, nred, bcast_sent,
                 arrived, fapl, console, rates, failed, trace>>

\* fopen(config.csv_file, "w") returns NULL: assert(fptr != NULL), line 196
CsvOpenFail ==
  /\ pc[0] = "csv"
  /\ Abort(0)
  /\ UNCHANGED <<size, ini_ok, ini, minnum, clock, config, my_proc_row,
                 my_proc_col, my_rows, my_cols, tm, agg, nred, bcast_sent,
                 arrived, fapl, console, csv, rates, failed, trace>>

\* MPI_Finalize(); return 0; (lines 222-224)
Finalize(p) ==
  /\ pc[p] = "finalize"
  /\ pc' = [pc EXCEPT ![p] = "done"]
  /\ UNCHANGED <<size, ini_ok, ini, minnum, clock, config, my_proc_row,
                 my_proc_col, my_rows, my_cols, tm, agg, nred, bcast_sent,
                 arrived, fapl, console, csv, rates, failed, trace>>

---------------------------------------------------------------------------
\* Inputs.
Cfg(st, ar, r, c, sc, pr, pcl, al, lo, hi) ==
  [steps |-> st, arrays |-> ar, rows |-> r, cols |-> c, scaling |-> sc,
   proc_rows |-> pr, proc_cols |-> pcl, alignment_increment |-> al,
   libver_bound_low |-> lo, libver_bound_high |-> hi]

TimingRecords ==
  [write_phase : Times, create_time : Times, write_time : Times,
   read_phase : Times, read_time : Times]

\* The runs of the protocol specifications: a strong and a weak run, a grid
\* that does not match the process count, and bounds given in the wrong order.
ProtoConfigs(sz) ==
  { Cfg(1, 1, 2 * sz, 2 * sz, "strong", 1, sz, 1, "earliest", "latest"),
    Cfg(2, 1, 2, 2, "weak", sz, 1, 2, "v18", "latest"),
    Cfg(1, 1, 2, 2, "strong", sz + 1, 1, 1, "earliest", "latest"),
    Cfg(1, 1, 2, 2, "weak", 1, sz, 1, "latest", "v18") }

ProtoClocks(sz) ==
  { [p \in 0 .. (sz - 1) |->
       [write_phase |-> 2 + p, create_time |-> 1, write_time |-> 1 + (p % 2),
        read_phase |-> 3 - (p % 2), read_time |-> 1 + p]] }

\* What no process has touched yet.
Fresh(sz) ==
  /\ size = sz
  /\ tm = [p \in 0 .. (sz - 1) |-> NoTimes]
  /\ agg = [p \in 0 .. (sz - 1) |-> NoAgg]
  /\ nred = [p \in 0 .. (sz - 1) |-> 0]
  /\ arrived = [k \in 1 .. 3 |-> {}]
  /\ fapl = [p \in 0 .. (sz - 1) |-> NoBounds]
  /\ console = 0
  /\ csv = 0
  /\ rates = NoRates
  /\ failed = {}

\* The state of every process after MPI_Init (lines 49-55).
Start(sz) ==
  /\ Fresh(sz)
  /\ pc = [p \in 0 .. (sz - 1) |-> IF p = 0 THEN "load" ELSE "bcast"]
  /\ config = [p \in 0 .. (sz - 1) |-> NoConfig]
  /\ my_proc_row = [p \in 0 .. (sz - 1) |-> 0]
  /\ my_proc_col = [p \in 0 .. (sz - 1) |-> 0]
  /\ my_rows = [p \in 0 .. (sz - 1) |-> 0]
  /\ my_cols = [p \in 0 .. (sz - 1) |-> 0]
  /\ bcast_sent = FALSE
  /\ trace = [p \in 0 .. (sz - 1) |-> << >>]

\* The state in which every process has received configuration c and is
\* about to execute line 72.
AtGrid(sz, c) ==
  /\ Fresh(sz)
  /\ ini_ok = TRUE
  /\ ini = c
  /\ pc = [p \in 0 .. (sz - 1) |-> "grid"]
  /\ config = [p \in 0 .. (sz - 1) |-> c]
  /\ my_proc_row = [p \in 0 .. (sz - 1) |-> 0]
  /\ my_proc_col = [p \in 0 .. (sz - 1) |-> 0]
  /\ my_rows = [p \in 0 .. (sz - 1) |-> 0]
  /\ my_cols = [p \in 0 .. (sz - 1) |-> 0]
  /\ bcast_sent = TRUE
  /\ trace = [p \in 0 .. (sz - 1) |-> <<"bcast", "bcast_done">>]

\* The state in which every process is about to execute line 91.
AtLibver(sz, c) ==
  /\ Fresh(sz)
  /\ ini_ok = TRUE
  /\ ini = c
  /\ pc = [p \in 0 .. (sz - 1) |-> "libver"]
  /\ config = [p \in 0 .. (sz - 1) |-> c]
  /\ my_proc_row = [p \in 0 .. (sz - 1) |-> GridRow(p, c)]
  /\ my_proc_col = [p \in 0 .. (sz - 1) |-> GridCol(p, c)]
  /\ my_rows = [p \in 0 .. (sz - 1) |-> LocalRows(c)]
  /\ my_cols = [p \in 0 .. (sz - 1) |-> LocalCols(c)]
  /\ bcast_sent = TRUE
  /\ trace = [p \in 0 .. (sz - 1) |->
                <<"bcast", "bcast_done", "dxpl_create", "dxpl_mpio",
                  "fapl_create", "fapl_mpio">>]

Init ==
  /\ \E sz \in 1 .. MaxProcs :
       /\ Start(sz)
       /\ ini \in ProtoConfigs(sz)
       /\ clock \in ProtoClocks(sz)
  /\ ini_ok \in BOOLEAN
  /\ minnum = 12

\* The steps of a run in which every call succeeds.
Step ==
  \/ LoadConfig
  \/ CheckConfig
  \/ \E p \in Procs : BcastEnter(p)
  \/ \E p \in Procs : BcastLeave(p)
  \/ \E p \in Procs : ComputeGrid(p)
  \/ \E p \in Procs : H5Call(p)
  \/ \E p \in Procs : set_libver_bounds(p)
  \/ \E p \in Procs, k \in 1 .. 3 : BarrierEnter(p, k)
  \/ \E p \in Procs, k \in 1 .. 3 : BarrierLeave(p, k)
  \/ \E p \in Procs : WriteBegin(p)
  \/ \E p \in Procs : WriteEnd(p)
  \/ \E p \in Procs : ReadBegin(p)
  \/ \E p \in Procs : ReadEnd(p)
  \/ \E p \in Procs : Reduce(p)
  \/ Report
  \/ WriteCsv
  \/ \E p \in Procs : Finalize(p)

Next ==
  \/ Step
  \/ \E p \in Procs : H5Fail(p)
  \/ \E p \in Procs : IoTestFail(p)
  \/ \E p \in Procs : MPIFail(p)
  \/ CsvOpenFail

Spec == Init /\ [][Next]_vars

\* The same runs started with MPI_ERRORS_RETURN: MPI errors come back to main.
NextErrorsReturn ==
  \/ Step
  \/ \E p \in Procs : H5Fail(p)
  \/ \E p \in Procs : IoTestFail(p)
  \/ \E p \in Procs : MPIErrorIgnored(p)
  \/ CsvOpenFail

InitErrorsReturn ==
  /\ \E sz \in 1 .. MaxStatProcs :
       /\ Start(sz)
       /\ ini \in ProtoConfigs(sz)
       /\ clock \in ProtoClocks(sz)
  /\ ini_ok \in BOOLEAN
  /\ minnum = 12

SpecErrorsReturn == InitErrorsReturn /\ [][NextErrorsReturn]_vars

---------------------------------------------------------------------------
\* Runs with a valid configuration in which no call fails; every process
\* that can take a step eventually takes one.
ValidConfigs(sz) ==
  { c \in ProtoConfigs(sz) :
      /\ validate(c, sz)
      /\ BoundsOrdered(LowBound(c.libver_bound_low, 12),
                       HighBound(c.libver_bound_high, 12)) }

InitOK ==
  /\ \E sz \in 1 .. MaxProcs :
       /\ Start(sz)
       /\ ini \in ValidConfigs(sz)
       /\ clock \in ProtoClocks(sz)
  /\ ini_ok = TRUE
  /\ minnum = 12

SpecOK == InitOK /\ [][Step]_vars /\ WF_vars(Step)

---------------------------------------------------------------------------
\* The statistics: runs without failures over every timing record in which
\* a phase lasts at least as long as the transfers it contains.
StatTimings ==
  { t \in TimingRecords :
      /\ t.create_time + t.write_time <= t.write_phase
      /\ t.read_time <= t.read_phase }

StatConfigs(sz) ==
  { Cfg(2, 1, 2 * sz, 2, "strong", sz, 1, 1, "earliest", "latest"),
    Cfg(1, 3, 2, 3, "weak", 1, sz, 1, "earliest", "latest") }

InitStats ==
  /\ \E sz \in 1 .. MaxStatProcs :
       /\ Start(sz)
       /\ ini \in StatConfigs(sz)
       /\ clock \in [0 .. (sz - 1) -> StatTimings]
  /\ ini_ok = TRUE
  /\ minnum = 12

SpecStats == InitStats /\ [][Step]_vars

---------------------------------------------------------------------------
\* The grid mapper and the partition planner over every grid and extent.
Extents == (1 .. MaxExtent) \cup {20}

InitGrid ==
  /\ \E pr \in 1 .. MaxGrid, pcl \in 1 .. MaxGrid, r \in Extents, c \in Extents,
        sc \in {"strong", "weak"} :
       AtGrid(pr * pcl, Cfg(1, 1, r, c, sc, pr, pcl, 1, "earliest", "latest"))
  /\ clock \in ProtoClocks(size)
  /\ minnum = 12

NextGrid == \E p \in Procs : ComputeGrid(p)

SpecGrid == InitGrid /\ [][NextGrid]_vars

---------------------------------------------------------------------------
\* set_libver_bounds over every pair of bound strings and library version.
LibverStrings == {"earliest", "v18", "v110", "v112", "latest", "v114"}

InitLibver ==
  /\ \E sz \in 1 .. MaxProcs, lo \in LibverStrings, hi \in LibverStrings :
       AtLibver(sz, Cfg(1, 1, 2, 2, "weak", 1, sz, 1, lo, hi))
  /\ clock \in ProtoClocks(size)
  /\ minnum \in 7 .. 14

NextLibver ==
  \/ \E p \in Procs : set_libver_bounds(p)
  \/ \E p \in Procs : H5Fail(p)

SpecLibver == InitLibver /\ [][NextLibver]_vars

---------------------------------------------------------------------------
\* Properties.
Has(p, e) == \E i \in 1 .. Len(trace[p]) : trace[p][i] = e
Count(sq, e) == Cardinality({i \in 1 .. Len(sq) : sq[i] = e})
IsCollective(e) == e \in {"bcast", "barrier", "reduce"}
Collectives(p) == SelectSeq(trace[p], IsCollective)
ExpectedCollectives ==
  <<"bcast", "barrier", "barrier", "barrier">> \o [i \in 1 .. NumReduces |-> "reduce"]
AllDone == \A p \in Procs : pc[p] = "done"

\* C1: the phases are globally synchronized: a process has started read_test
\* only if every process has finished write_test; a process has started
\* write_test only if every process has completed the broadcast; the file
\* size query and the reductions are issued only after every process has
\* finished read_test.
C1_PhasesSynchronized ==
  LET Did(e) == {p \in Procs : Has(p, e)}
  IN /\ Did("read_test") # {} => Did("write_done") = Procs
     /\ Did("write_test") # {} => Did("bcast_done") = Procs
     /\ (Did("fopen") \cup Did("fsize") \cup Did("reduce")) # {}
          => Did("read_done") = Procs

\* A run of several processes in which rank 0 has queried the file size and
\* another process has begun its reductions.
C1_Witness ==
  /\ size >= 2
  /\ Has(0, "fsize")
  /\ \E p \in Procs : p # 0 /\ nred[p] > 0

\* Rank 0 has ended in lines 57-67 on a configuration error, and no MPI call
\* has failed.
ConfigErrorDetected ==
  /\ failed = {}
  /\ \/ pc[0] = "exit1"
     \/ pc[0] = "aborted" /\ trace[0] = << >>

\* A process is left inside MPI_Bcast waiting for a root that has ended.
BlockedInBcast(p) == pc[p] = "bcast_wait" /\ ~bcast_sent /\ pc[0] \in Ended

\* C2: when rank 0 detects a configuration error the run is aborted before
\* the broadcast and before any I/O: no process performs the broadcast, the
\* write phase or the read phase, and no process is left blocked.
C2_ConfigErrorAbortsRun ==
  ConfigErrorDetected =>
    \A p \in Procs :
      /\ ~Has(p, "bcast")
      /\ ~Has(p, "write_test")
      /\ ~Has(p, "read_test")
      /\ ~BlockedInBcast(p)

\* The name a failed operation has in the trace.
LogName(op) ==
  IF op \in {"barrier1", "barrier2", "barrier3"} THEN "barrier"
  ELSE IF op = "writing" THEN "write_test"
  ELSE IF op = "reading" THEN "read_test"
  ELSE op

\* C6: a failure of a storage or coordination call (property lists, file
\* open/size/close, broadcast, barrier, reduction) is fatal: the process
\* that observes it is aborted, the failed call is the last thing it did
\* and it issued it once, and the run emits no report.
C6_CollaboratorFailureFatal ==
  /\ \A x \in failed :
       /\ pc[x[1]] = "aborted"
       /\ trace[x[1]][Len(trace[x[1]])] = LogName(x[2])
       /\ x[2] \in H5Ops \cup {"libver"} => Count(trace[x[1]], x[2]) = 1
  /\ failed # {} => console = 0 /\ csv = 0

\* C9: with a valid configuration and no failure, every process issues one
\* broadcast, three barriers and ten reductions in that order, every process
\* reaches the end of main, and exactly one console report and one CSV file
\* are written, by rank 0, after all reductions have completed.
C9_RunCompletes ==
  /\ [](\A p \in Procs :
          \E n \in 0 .. Len(ExpectedCollectives) :
            Collectives(p) = SubSeq(ExpectedCollectives, 1, n))
  /\ [](console <= 1 /\ csv <= console
        /\ (console = 1 => \A p \in Procs : nred[p] = NumReduces))
  /\ [](AllDone => /\ console = 1 /\ csv = 1
                   /\ \A p \in Procs : Collectives(p) = ExpectedCollectives)
  /\ <>AllDone

\* A run of MaxProcs processes has ended with its report written.
C9_Witness == AllDone /\ size = MaxProcs /\ console = 1 /\ csv = 1

---------------------------------------------------------------------------
\* Partitioning (SpecGrid).
Computed(p) == pc[p] # "grid"
AllComputed == \A p \in Procs : Computed(p)
Owns(p, i, j) ==
  /\ SubOffset(p)[1] <= i /\ i < SubOffset(p)[1] + SubCount(p)[1]
  /\ SubOffset(p)[2] <= j /\ j < SubOffset(p)[2] + SubCount(p)[2]
Inside(p, ext) ==
  /\ SubOffset(p)[1] >= 0 /\ SubOffset(p)[1] + SubCount(p)[1] <= ext[1]
  /\ SubOffset(p)[2] >= 0 /\ SubOffset(p)[2] + SubCount(p)[2] <= ext[2]
Cells(ext) == (0 .. (ext[1] - 1)) \X (0 .. (ext[2] - 1))
EvenlyDivisible(c) == c.rows % c.proc_rows = 0 /\ c.cols % c.proc_cols = 0
ScenarioB(c) ==
  /\ strong_scaling_flg(c) /\ c.rows = 20 /\ c.cols = 20
  /\ c.proc_rows = 2 /\ c.proc_cols = 2

\* C3: under strong scaling with evenly divisible extents the subregions of
\* the processes are pairwise disjoint, lie inside the global extent and
\* together cover every element of it; on a 2x2 grid over 20x20 each
\* process owns 10x10 at offsets (0,0), (0,10), (10,0), (10,10).
C3_StrongScalingTiles ==
  (strong_scaling_flg(ini) /\ EvenlyDivisible(ini)) =>
    /\ \A p \in Procs : Computed(p) =>
         /\ Inside(p, <<ini.rows, ini.cols>>)
         /\ SubCount(p) = <<ini.rows \div ini.proc_rows, ini.cols \div ini.proc_cols>>
         /\ \A q \in Procs : (Computed(q) /\ q # p) =>
              ~ \E x \in Cells(<<ini.rows, ini.cols>>) :
                  Owns(p, x[1], x[2]) /\ Owns(q, x[1], x[2])
    /\ AllComputed =>
         \A x \in Cells(<<ini.rows, ini.cols>>) :
           \E p \in Procs : Owns(p, x[1], x[2])
    /\ (AllComputed /\ ScenarioB(ini)) =>
         /\ \A p \in Procs : SubCount(p) = <<10, 10>>
         /\ <<SubOffset(0), SubOffset(1), SubOffset(2), SubOffset(3)>>
              = << <<0, 0>>, <<0, 10>>, <<10, 0>>, <<10, 10>> >>

\* Every process of the 2x2 grid over 20x20 has computed its subregion.
C3_Witness == AllComputed /\ ScenarioB(ini) /\ size = 4

\* C4: when proc_rows x proc_cols equals the process count, rank ->
\* (rank / proc_cols, rank mod proc_cols) maps the ranks one-to-one onto
\* the grid coordinates.
C4_GridBijection ==
  validate(ini, size) =>
    /\ \A p \in Procs : Computed(p) =>
         /\ my_proc_row[p] \in 0 .. (ini.proc_rows - 1)
         /\ my_proc_col[p] \in 0 .. (ini.proc_cols - 1)
         /\ \A q \in Procs : (Computed(q) /\ q # p) =>
              <<my_proc_row[p], my_proc_col[p]>> # <<my_proc_row[q], my_proc_col[q]>>
    /\ AllComputed =>
         \A r \in 0 .. (ini.proc_rows - 1) : \A c \in 0 .. (ini.proc_cols - 1) :
           \E p \in Procs : <<my_proc_row[p], my_proc_col[p]>> = <<r, c>>

\* Every process of a grid with more columns than rows has its coordinate.
C4_Witness ==
  AllComputed /\ ini.proc_rows = 1 /\ ini.proc_cols = 2 /\ my_proc_col[1] = 1

\* C5: under weak scaling every process's local extent, and the extent of
\* its subregion, is the configured rows and cols whatever its rank and the
\* grid, and the on-disk extent is the global extent times the grid shape.
C5_WeakScalingExtent ==
  ~strong_scaling_flg(ini) =>
    /\ \A p \in Procs : Computed(p) =>
         /\ my_rows[p] = ini.rows
         /\ my_cols[p] = ini.cols
         /\ SubCount(p) = <<ini.rows, ini.cols>>
         /\ Inside(p, <<ini.rows * ini.proc_rows, ini.cols * ini.proc_cols>>)
    /\ DiskExtent(ini) = <<ini.rows * ini.proc_rows, ini.cols * ini.proc_cols>>

\* A weak-scaling run on a 2x2 grid in which the last rank has its extent.
C5_Witness ==
  /\ ~strong_scaling_flg(ini) /\ ini.proc_rows = 2 /\ ini.proc_cols = 2
  /\ AllComputed /\ ini.rows = 3 /\ my_rows[3] = 3

---------------------------------------------------------------------------
\* set_libver_bounds (SpecLibver).

\* C10: set_libver_bounds either sets bounds with low <= high on the
\* file-access list or aborts the process with no bounds set; low
\* "earliest" gives earliest, a low string other than earliest, v18, v110,
\* v112 gives latest, and a high string other than v18, v110, v112 leaves
\* high at latest.
C10_LibverBounds ==
  \A p \in Procs :
    /\ fapl[p].set =>
         /\ fapl[p].low <= fapl[p].high
         /\ pc[p] = "barrier1"
         /\ config[p].libver_bound_low = "earliest"
              => fapl[p].low = H5F_LIBVER_EARLIEST
         /\ config[p].libver_bound_low \notin {"earliest", "v18", "v110", "v112"}
              => fapl[p].low = H5F_LIBVER_LATEST(minnum)
         /\ config[p].libver_bound_high \notin {"v18", "v110", "v112"}
              => fapl[p].high = H5F_LIBVER_LATEST(minnum)
    /\ ~fapl[p].set => fapl[p] = NoBounds
    /\ Has(p, "libver") => fapl[p].set \/ pc[p] = "aborted"

\* One process has set bounds from strings the function does not know and
\* another has aborted.
C10_Witness ==
  /\ size >= 2
  /\ fapl[0].set
  /\ config[0].libver_bound_low = "v114"
  /\ config[0].libver_bound_high = "v114"
  /\ pc[1] = "aborted"

---------------------------------------------------------------------------
\* Statistics (SpecStats).
IsMinOf(v, f) == (\E q \in Procs : tm[q][f] = v) /\ (\A q \in Procs : v <= tm[q][f])
IsMaxOf(v, f) == (\E q \in Procs : tm[q][f] = v) /\ (\A q \in Procs : tm[q][f] <= v)
Reduced == pc[0] \in {"report", "csv", "finalize", "done"}

\* C7: after the reductions the aggregated values on rank 0 are the minimum
\* and the maximum of each timing field over all processes, so minimum <=
\* maximum; on every other process they stay at 0.0.
C7_ReductionCorrect ==
  /\ \A k \in 1 .. NumReduces :
       nred[0] >= k =>
         IF ReduceOrder[k][2] = "min"
           THEN IsMinOf(agg[0]["min"][ReduceOrder[k][1]], ReduceOrder[k][1])
           ELSE IsMaxOf(agg[0]["max"][ReduceOrder[k][1]], ReduceOrder[k][1])
  /\ Reduced => \A f \in Fields : agg[0]["min"][f] <= agg[0]["max"][f]
  /\ \A p \in Procs : (p # 0 /\ agg[p] # NoAgg) => agg[p] = ZeroAgg
  /\ \A p \in Procs : (p # 0 /\ nred[p] > 0) => agg[p] = ZeroAgg

\* Two processes with different write times have been reduced.
C7_Witness ==
  /\ size = 2 /\ pc[0] = "done" /\ pc[1] = "done"
  /\ agg[0]["min"]["write_time"] < agg[0]["max"]["write_time"]
  /\ agg[0]["min"]["read_phase"] = agg[0]["max"]["read_phase"]
  /\ agg[1] = ZeroAgg

\* a/b <= c/d for positive denominators
RateLeq(a, b) == a[1] * b[2] <= b[1] * a[2]
LocalBytes(c) ==
  IF strong_scaling_flg(c)
    THEN c.steps * c.arrays * (c.rows \div c.proc_rows) * (c.cols \div c.proc_cols) * 8
    ELSE c.steps * c.arrays * c.rows * c.cols * 8

\* C8: the minimum rate is byte_count / (1024 x 1024 x maximum time) and
\* the maximum rate byte_count / (1024 x 1024 x minimum time), for write
\* and for read, with byte_count = steps x arrays x local rows x local
\* cols x 8; for positive times the minimum rate is at most the maximum.
C8_RatesPairInversely ==
  console >= 1 =>
    /\ \A r \in {"min_write_rate", "max_write_rate", "min_read_rate", "max_read_rate"} :
         rates[r][1] = LocalBytes(ini)
    /\ \E v \in Times : IsMaxOf(v, "write_time") /\ rates.min_write_rate[2] = 1048576 * v
    /\ \E v \in Times : IsMinOf(v, "write_time") /\ rates.max_write_rate[2] = 1048576 * v
    /\ \E v \in Times : IsMaxOf(v, "read_time") /\ rates.min_read_rate[2] = 1048576 * v
    /\ \E v \in Times : IsMinOf(v, "read_time") /\ rates.max_read_rate[2] = 1048576 * v
    /\ (\A q \in Procs : tm[q]["write_time"] > 0)
         => RateLeq(rates.min_write_rate, rates.max_write_rate)
    /\ (\A q \in Procs : tm[q]["read_time"] > 0)
         => RateLeq(rates.min_read_rate, rates.max_read_rate)

\* A weak-scaling run of two processes with different positive write times
\* has been reported: its on-disk extent is twice the local one.
C8_Witness ==
  /\ console = 1 /\ size = 2 /\ ~strong_scaling_flg(ini)
  /\ tm[0]["write_time"] = 1 /\ tm[1]["write_time"] = 2
  /\ tm[0]["read_time"] = 2 /\ tm[1]["read_time"] = 1
  /\ DiskExtent(ini) # <<my_rows[0], my_cols[0]>>
  /\ ~RateLeq(rates.max_write_rate, rates.min_write_rate)

====
